---- MODULE Spec2Model ----
(***************************************************************************)
(* A model of the binpack wire codec (src/binpack.go) and of the marshal   *)
(* engine built on it (src/marshal.go, src/unnamed/part_000).              *)
(*                                                                         *)
(* Byte strings.  A Go []byte / bytes.Buffer is modelled losslessly as a   *)
(* run-length list: a sequence of runs [b |-> byte, n |-> count] in which  *)
(* no run is empty and no two neighbouring runs carry the same byte, so    *)
(* that two byte strings are equal exactly when their run lists are equal. *)
(* This keeps values of 2^24 or 2^29 bytes (the boundaries of the value    *)
(* codec) representable.                                                   *)
(***************************************************************************)
EXTENDS Integers, Sequences, FiniteSets, TLC

VARIABLES Data, calls, flushed, opened, src, results, cut, marks, op, arg, res

vars == <<Data, calls, flushed, opened, src, results, cut, marks, op, arg, res>>

streamVars == <<Data, calls, flushed, opened, src, results, cut, marks>>

pureVars == <<op, arg, res>>

(***************************************************************************)
(* Integer helpers: Go's shifts, masks and byte() truncation.              *)
(***************************************************************************)
RECURSIVE Pow2(_)
Pow2(k) == IF k = 0 THEN 1 ELSE 2 * Pow2(k - 1)

Shr(x, k) == x \div Pow2(k)

Shl(x, k) == x * Pow2(k)

byte(x) == x % 256

RECURSIVE BitAnd(_, _)
BitAnd(a, b) ==
  IF a = 0 \/ b = 0 THEN 0
  ELSE (a % 2) * (b % 2) + 2 * BitAnd(a \div 2, b \div 2)

RECURSIVE BitOr(_, _)
BitOr(a, b) ==
  IF a = 0 THEN b
  ELSE IF b = 0 THEN a
  ELSE (IF a % 2 = 1 \/ b % 2 = 1 THEN 1 ELSE 0) + 2 * BitOr(a \div 2, b \div 2)

(***************************************************************************)
(* Byte strings as run lists.                                              *)
(***************************************************************************)
Rep(b, n) == IF n <= 0 THEN <<>> ELSE <<[b |-> b, n |-> n]>>

Cat(x, y) ==
  IF x = <<>> THEN y
  ELSE IF y = <<>> THEN x
  ELSE IF x[Len(x)].b = y[1].b
       THEN SubSeq(x, 1, Len(x) - 1)
            \o <<[b |-> y[1].b, n |-> x[Len(x)].n + y[1].n]>>
            \o SubSeq(y, 2, Len(y))
       ELSE x \o y

RECURSIVE Lit(_)
Lit(s) == IF s = <<>> THEN <<>> ELSE Cat(Rep(s[1], 1), Lit(Tail(s)))

RECURSIVE BLen(_)
BLen(x) == IF x = <<>> THEN 0 ELSE x[1].n + BLen(Tail(x))

RECURSIVE Take(_, _)
Take(x, k) ==
  IF k <= 0 \/ x = <<>> THEN <<>>
  ELSE IF x[1].n >= k THEN Rep(x[1].b, k)
  ELSE <<x[1]>> \o Take(Tail(x), k - x[1].n)

RECURSIVE Drop(_, _)
Drop(x, k) ==
  IF k <= 0 \/ x = <<>> THEN x
  ELSE IF x[1].n > k THEN <<[b |-> x[1].b, n |-> x[1].n - k]>> \o Tail(x)
  ELSE Drop(Tail(x), k - x[1].n)

\* Whether x holds at least k bytes (without summing the whole run list).
RECURSIVE HasAtLeast(_, _)
HasAtLeast(x, k) ==
  IF k <= 0 THEN TRUE
  ELSE IF x = <<>> THEN FALSE
  ELSE HasAtLeast(Tail(x), k - x[1].n)

\* The i-th byte of x, counting from 1.
At(x, i) == Take(Drop(x, i - 1), 1)[1].b

(***************************************************************************)
(* The readers of the Go library that the decoder is built on.             *)
(***************************************************************************)
\* bytes.Reader.ReadByte: the next byte, or io.EOF when nothing is left.
ReadByte(buf) ==
  IF buf = <<>> THEN [err |-> "EOF", b |-> 0, rest |-> buf]
  ELSE [err |-> "nil", b |-> buf[1].b, rest |-> Drop(buf, 1)]

\* io.ReadFull(buf, make([]byte, n)): n bytes; io.EOF when none could be
\* read, io.ErrUnexpectedEOF when some but fewer than n were.
ReadFull(buf, n) ==
  IF n = 0 THEN [err |-> "nil", data |-> <<>>, rest |-> buf]
  ELSE IF buf = <<>> THEN [err |-> "EOF", data |-> <<>>, rest |-> buf]
  ELSE IF ~HasAtLeast(buf, n)
       THEN [err |-> "ErrUnexpectedEOF", data |-> buf, rest |-> <<>>]
  ELSE [err |-> "nil", data |-> Take(buf, n), rest |-> Drop(buf, n)]

(***************************************************************************)
(* src/binpack.go: the tag codec.                                          *)
(***************************************************************************)
\* tagSize with the first boundary off by one.
tagSize_Le(tag) ==
  IF tag <= 128 THEN 1
  ELSE IF tag < Shl(1, 14) THEN 2
  ELSE IF tag < Shl(1, 30) THEN 4
  ELSE -1

tagSize(tag) ==
  IF tag < 128 THEN 1
  ELSE IF tag < Shl(1, 14) THEN 2
  ELSE IF tag < Shl(1, 30) THEN 4
  ELSE -1

\* The switch of writeTag on size = tagSize(tag).
writeTagSized(w, tag, size) ==
  CASE size = 1 -> [w |-> Cat(w, Lit(<<byte(tag)>>)), err |-> "nil"]
    [] size = 2 ->
         [w |-> Cat(w, Lit(<<BitOr(128, byte(Shr(tag, 8))), byte(BitAnd(tag, 255))>>)),
          err |-> "nil"]
    [] size = 4 ->
         [w |-> Cat(w, Lit(<<BitOr(192, byte(Shr(tag, 24))), byte(Shr(tag, 16)),
                             byte(Shr(tag, 8)), byte(tag)>>)),
          err |-> "nil"]
    [] OTHER -> [w |-> w, err |-> "tag too big"]

writeTag(w, tag) == writeTagSized(w, tag, tagSize(tag))

(***************************************************************************)
(* src/binpack.go: the value codec.                                        *)
(***************************************************************************)
\* lengthSize without the one-byte form for small single bytes.
lengthSize_NoDirect(value) ==
  IF BLen(value) < Shl(1, 6) THEN 1
  ELSE IF BLen(value) < Shl(1, 13) THEN 2
  ELSE IF BLen(value) < Shl(1, 29) THEN 4
  ELSE -1

lengthSize(value) ==
  IF BLen(value) = 1 /\ value[1].b < 128 THEN 0
  ELSE IF BLen(value) < Shl(1, 6) THEN 1
  ELSE IF BLen(value) < Shl(1, 13) THEN 2
  ELSE IF BLen(value) < Shl(1, 29) THEN 4
  ELSE -1

\* The switch of writeValue on size = lengthSize(value), with n = len(value).
writeValueSized(w, value, n, size) ==
  CASE size = 0 -> [w |-> Cat(w, Rep(value[1].b, 1)), err |-> "nil"]
    [] size = 1 ->
         [w |-> Cat(Cat(w, Lit(<<BitOr(128, byte(n))>>)), value), err |-> "nil"]
    [] size = 2 ->
         [w |-> Cat(Cat(w, Lit(<<BitOr(192, byte(Shr(n, 8))), byte(n)>>)), value),
          err |-> "nil"]
    [] size = 4 ->
         [w |-> Cat(Cat(w, Lit(<<BitOr(224, byte(Shr(n, 24))), byte(Shr(n, 16)),
                                 byte(Shr(n, 8)), byte(n)>>)), value),
          err |-> "nil"]
    [] OTHER -> [w |-> w, err |-> "value too big"]

writeValue(w, value) == writeValueSized(w, value, BLen(value), lengthSize(value))

\* Encoder.Encode after writeTag returned t: writeValue unless the tag failed.
EncodeValue(t, value) == IF t.err = "nil" THEN writeValue(t.w, value) ELSE t

EncodeTo(data, tag, value) == EncodeValue(writeTag(data, tag), value)

(***************************************************************************)
(* src/binpack.go: the decoder.                                            *)
(***************************************************************************)
\* readInt24 after io.ReadFull returned r.
readInt24Of(r) ==
  IF r.err # "nil" THEN [err |-> r.err, z |-> 0, rest |-> r.rest]
  ELSE [err |-> "nil",
        z |-> BitOr(BitOr(Shl(At(r.data, 1), 16), Shl(At(r.data, 2), 8)),
                    At(r.data, 3)),
        rest |-> r.rest]

readInt24(buf) == readInt24Of(ReadFull(buf, 3))

\* readTag, case 2, after the second ReadByte returned c.
readTag2(b, c) ==
  IF c.err # "nil" THEN [err |-> c.err, tag |-> 0, rest |-> c.rest]
  ELSE [err |-> "nil", tag |-> BitOr(Shl(BitAnd(b, 63), 8), c.b), rest |-> c.rest]

\* readTag, default case, after readInt24 returned z.
readTag4(b, z) ==
  IF z.err # "nil" THEN [err |-> z.err, tag |-> 0, rest |-> z.rest]
  ELSE [err |-> "nil", tag |-> BitOr(Shl(BitAnd(b, 63), 24), z.z), rest |-> z.rest]

\* readTag after the first ReadByte returned r.
readTagIndex(r) ==
  IF r.err # "nil" THEN [err |-> r.err, tag |-> 0, rest |-> r.rest]
  ELSE IF Shr(r.b, 6) \in {0, 1} THEN [err |-> "nil", tag |-> r.b, rest |-> r.rest]
  ELSE IF Shr(r.b, 6) = 2 THEN readTag2(r.b, ReadByte(r.rest))
  ELSE readTag4(r.b, readInt24(r.rest))

readTag(buf) == readTagIndex(ReadByte(buf))

\* readValue, v == 6, after the second ReadByte returned c.
readLength2(b, c) ==
  IF c.err # "nil"
    THEN [err |-> c.err, direct |-> FALSE, b |-> b, n |-> 0, rest |-> c.rest]
  ELSE [err |-> "nil", direct |-> FALSE, b |-> b,
        n |-> BitOr(Shl(BitAnd(b, 31), 8), c.b), rest |-> c.rest]

\* readValue, v == 7, after readInt24 returned z.
readLength4(b, z) ==
  IF z.err # "nil"
    THEN [err |-> z.err, direct |-> FALSE, b |-> b, n |-> 0, rest |-> z.rest]
  ELSE [err |-> "nil", direct |-> FALSE, b |-> b, n |-> z.z, rest |-> z.rest]

\* readValue after the first ReadByte returned r.
readLengthIndex(r) ==
  IF r.err # "nil"
    THEN [err |-> r.err, direct |-> FALSE, b |-> 0, n |-> 0, rest |-> r.rest]
  ELSE IF Shr(r.b, 5) < 4
    THEN [err |-> "nil", direct |-> TRUE, b |-> r.b, n |-> 0, rest |-> r.rest]
  ELSE IF Shr(r.b, 5) < 6
    THEN [err |-> "nil", direct |-> FALSE, b |-> r.b, n |-> BitAnd(r.b, 63),
          rest |-> r.rest]
  ELSE IF Shr(r.b, 5) = 6 THEN readLength2(r.b, ReadByte(r.rest))
  ELSE readLength4(r.b, readInt24(r.rest))

\* The first half of readValue: the index byte and the length bytes.  direct
\* is TRUE when the index byte is itself the value; otherwise n is the number
\* of data bytes still to be read.
readLength(buf) == readLengthIndex(ReadByte(buf))

\* The end of readValue, after io.ReadFull(buf, data) returned d.
readValueData(d) ==
  IF d.err # "nil" THEN [err |-> d.err, value |-> <<>>, rest |-> d.rest]
  ELSE [err |-> "nil", value |-> d.data, rest |-> d.rest]

\* readValue once the length is known.
readValueBody(h) ==
  IF h.err # "nil" THEN [err |-> h.err, value |-> <<>>, rest |-> h.rest]
  ELSE IF h.direct THEN [err |-> "nil", value |-> Rep(h.b, 1), rest |-> h.rest]
  ELSE readValueData(ReadFull(h.rest, h.n))

readValue(buf) == readValueBody(readLength(buf))

\* Decoder.Decode after readValue returned v.
DecodeResult(tag, v) ==
  IF v.err # "nil"
    THEN [tag |-> tag, value |-> <<>>, err |-> v.err, rest |-> v.rest]
  ELSE [tag |-> tag, value |-> v.value, err |-> "nil", rest |-> v.rest]

\* Decoder.Decode after readTag returned t.
DecodeValue(t) ==
  IF t.err # "nil" THEN [tag |-> 0, value |-> <<>>, err |-> t.err, rest |-> t.rest]
  ELSE DecodeResult(t.tag, readValue(t.rest))

\* Decoder.Decode over the remaining source buf.
DecodeFrom(buf) == DecodeValue(readTag(buf))

(***************************************************************************)
(* Fixed-width machine integers.  A w-bit Go integer is the sequence of    *)
(* its w bits, most significant first, so that 64-bit arithmetic keeps its *)
(* width: shifts drop bits, conversions extend or truncate.                *)
(***************************************************************************)
Zeros(k) == [i \in 1..k |-> 0]

Ones(k) == [i \in 1..k |-> 1]

\* Bit j (0 = least significant) of the two's complement integer x.
BitOf(x, j) == IF j <= 30 THEN (x \div Pow2(j)) % 2 ELSE IF x < 0 THEN 1 ELSE 0

\* The w-bit two's complement word of the integer x.
Word(x, w) == [i \in 1..w |-> BitOf(x, w - i)]

\* The number a short word (at most 30 bits) stands for, read as unsigned.
RECURSIVE WordNat(_)
WordNat(x) == IF x = <<>> THEN 0 ELSE 2 * WordNat(SubSeq(x, 1, Len(x) - 1)) + x[Len(x)]

\* x << k and x >> k at the width of x (>> arithmetic for signed, logical
\* for unsigned operands).
ShlW(x, k) == SubSeq(x, k + 1, Len(x)) \o Zeros(k)

SarW(x, k) == [i \in 1..k |-> x[1]] \o SubSeq(x, 1, Len(x) - k)

ShrW(x, k) == Zeros(k) \o SubSeq(x, 1, Len(x) - k)

XorW(x, y) == [i \in 1..Len(x) |-> (x[i] + y[i]) % 2]

OrW(x, y) == [i \in 1..Len(x) |-> IF x[i] = 1 \/ y[i] = 1 THEN 1 ELSE 0]

AndW(x, y) == [i \in 1..Len(x) |-> x[i] * y[i]]

\* x + y at the width of x, wrapping around: bit i receives a carry when
\* some lower position generates one and every position between passes it on.
CarryInto(x, y, i) ==
  \E j \in (i + 1)..Len(x) :
    /\ x[j] = 1 /\ y[j] = 1
    /\ \A k \in (i + 1)..(j - 1) : x[k] + y[k] = 1

AddW(x, y) ==
  [i \in 1..Len(x) |-> (x[i] + y[i] + (IF CarryInto(x, y, i) THEN 1 ELSE 0)) % 2]

\* Conversions between integer types: a signed source is sign-extended, an
\* unsigned one zero-extended; a narrower target keeps the low bits.
SignExtend(x, w) == [i \in 1..(w - Len(x)) |-> x[1]] \o x

ZeroExtend(x, w) == Zeros(w - Len(x)) \o x

Truncate(x, w) == SubSeq(x, Len(x) - w + 1, Len(x))

\* binary.BigEndian.PutUint64: the eight bytes of z, most significant first.
PutUint64(z) == [i \in 1..8 |-> WordNat(SubSeq(z, 8 * i - 7, 8 * i))]

\* The bytes of a byte string one by one (short strings only).
RECURSIVE Expand(_)
Expand(x) ==
  IF x = <<>> THEN <<>>
  ELSE <<x[1].b>> \o Expand(Drop(x, 1))

(***************************************************************************)
(* src/binpack.go: the integer packer.                                     *)
(***************************************************************************)
\* The loop of PackUint64 over buf from index i: the slice from the first
\* non-zero byte, or buf[:1] when there is none.
\* The loop of PackUint64 ending in an empty slice for z = 0.
RECURSIVE StripFrom_Empty(_, _)
StripFrom_Empty(buf, i) ==
  IF i > Len(buf) THEN <<>>
  ELSE IF buf[i] # 0 THEN SubSeq(buf, i, Len(buf))
  ELSE StripFrom_Empty(buf, i + 1)

RECURSIVE StripFrom(_, _)
StripFrom(buf, i) ==
  IF i > Len(buf) THEN SubSeq(buf, 1, 1)
  ELSE IF buf[i] # 0 THEN SubSeq(buf, i, Len(buf))
  ELSE StripFrom(buf, i + 1)

PackUint64(z) == Lit(StripFrom(PutUint64(z), 1))

RECURSIVE UnpackLoop(_, _)
UnpackLoop(z, bs) ==
  IF bs = <<>> THEN z
  ELSE UnpackLoop(OrW(ShlW(z, 8), ZeroExtend(Word(bs[1], 8), 64)), Tail(bs))

UnpackUint64(data) == UnpackLoop(Zeros(64), Expand(data))

PackInt64(z) == PackUint64(XorW(ShlW(z, 1), SarW(z, 63)))

\* mask := math.MaxUint64 + (1 - z&1)
zigzagMask(z) == AddW(Ones(64), Word(1 - z[64], 64))

unzigzag(z) == XorW(zigzagMask(z), ShrW(z, 1))

UnpackInt64(data) == unzigzag(UnpackUint64(data))

(***************************************************************************)
(* Values.  A Go value is a record [k, nil, t, v]: its kind k, whether it  *)
(* is a nil pointer/slice/map, what its type needs beyond the kind (t: the *)
(* zero value of the element type, which stands for that type) and its     *)
(* content v.  A number's content is its bits at the width of its type.    *)
(***************************************************************************)
SignedKinds == {"int", "int8", "int16", "int32", "int64"}

NumberKinds ==
  SignedKinds \cup {"uint16", "uint32", "uint64", "float32", "float64"}

KindWidth(k) ==
  CASE k \in {"int8"} -> 8
    [] k \in {"int16", "uint16"} -> 16
    [] k \in {"int32", "uint32", "float32"} -> 32
    [] OTHER -> 64

Number(k, bits) == [k |-> k, nil |-> FALSE, t |-> <<>>, v |-> bits]

(***************************************************************************)
(* src/marshal.go, marshalNumber: zig-zag at the width of the operand,     *)
(* conversion to uint64, then the shortest big-endian form.                *)
(***************************************************************************)
\* The switch of marshalNumber: the uint64 that is packed for a number of
\* kind k whose bits (at the width of k) are t.
numberBitsOf(k, t) ==
  CASE k \in {"uint16", "uint32", "float32"} -> ZeroExtend(t, 64)
    [] k \in {"uint64", "float64"} -> t
    [] k = "int" -> XorW(ShlW(t, 1), SarW(t, 63))
    [] k = "int8" -> XorW(SignExtend(ShlW(t, 1), 64), SignExtend(SarW(t, 7), 64))
    [] k = "int16" -> XorW(SignExtend(ShlW(t, 1), 64), SignExtend(SarW(t, 15), 64))
    [] k = "int32" -> XorW(SignExtend(ShlW(t, 1), 64), SignExtend(SarW(t, 31), 64))
    [] k = "int64" -> XorW(ShlW(t, 1), SarW(t, 63))

numberBits(v) == numberBitsOf(v.k, v.v)

marshalNumber(v) ==
  IF v.k \notin NumberKinds THEN [ok |-> FALSE, buf |-> <<>>]
  ELSE [ok |-> TRUE, buf |-> Lit(StripFrom(PutUint64(numberBits(v)), 1))]

(***************************************************************************)
(* src/unnamed/part_000, unmarshalNumber: the target is assigned before    *)
(* the length of data is checked.                                          *)
(***************************************************************************)
\* The switch of unmarshalNumber on the target's type, z being the bytes of
\* data accumulated big-endian.
numberOf(z, k) ==
  IF k \in SignedKinds
    THEN Truncate(XorW(zigzagMask(z), ShrW(z, 1)), KindWidth(k))
    ELSE Truncate(z, KindWidth(k))

\* unmarshalNumber without the check of the length of data.
unmarshalNumber_AnyLength(data, target) ==
  IF target.k \notin NumberKinds
    THEN [ok |-> FALSE, err |-> "nil", v |-> target]
  ELSE
    [ok |-> TRUE, err |-> "nil",
     v |-> [target EXCEPT !.v = numberOf(UnpackLoop(Zeros(64), Expand(data)), target.k)]]

unmarshalNumber(data, target) ==
  IF target.k \notin NumberKinds
    THEN [ok |-> FALSE, err |-> "nil", v |-> target]
  ELSE
    [ok |-> TRUE,
     err |-> IF BLen(data) = 0 \/ BLen(data) > 8
               THEN "invalid number encoding" ELSE "nil",
     v |-> [target EXCEPT !.v = numberOf(UnpackLoop(Zeros(64), Expand(data)), target.k)]]

(***************************************************************************)
(* Go values as the reflect package sees them.  A value is a record        *)
(* [k, nil, t, v]: k is the kind, nil tells a nil pointer, slice, map or   *)
(* interface, t holds the zero values of the component types (pointee,     *)
(* element, key and element) or the field declarations of a struct, and v  *)
(* the contents: bits of a number, a byte, a boolean, the bytes of a       *)
(* string, the pointee, the elements, the <<key, value>> entries in        *)
(* iteration order, or the field values.  A []byte is a slice of bytes.    *)
(***************************************************************************)
Bool(b) == [k |-> "bool", nil |-> FALSE, t |-> <<>>, v |-> b]

Byte(b) == [k |-> "byte", nil |-> FALSE, t |-> <<>>, v |-> b]

String(s) == [k |-> "string", nil |-> FALSE, t |-> <<>>, v |-> s]

NilPtr(elem) == [k |-> "ptr", nil |-> TRUE, t |-> <<elem>>, v |-> <<>>]

\* reflect.New and the & operator: a pointer to x, elem being the zero value
\* of the pointee's type.
PtrTo(elem, x) == [k |-> "ptr", nil |-> FALSE, t |-> <<elem>>, v |-> <<x>>]

NilSlice(elem) == [k |-> "slice", nil |-> TRUE, t |-> <<elem>>, v |-> <<>>]

Slice(elem, elts) == [k |-> "slice", nil |-> FALSE, t |-> <<elem>>, v |-> elts]

NilMap(key, elem) == [k |-> "map", nil |-> TRUE, t |-> <<key, elem>>, v |-> <<>>]

Map(key, elem, entries) ==
  [k |-> "map", nil |-> FALSE, t |-> <<key, elem>>, v |-> entries]

NilInterface == [k |-> "iface", nil |-> TRUE, t |-> <<>>, v |-> <<>>]

\* A struct field declaration: has tells whether the field's tag has a
\* binpack key, ann is its text, one character per element.
Field(name, has, ann) == [name |-> name, has |-> has, ann |-> ann]

Struct(fields, values) ==
  [k |-> "struct", nil |-> FALSE, t |-> fields, v |-> values]

IsBytes(x) == x.k = "slice" /\ x.t[1].k = "byte"

\* []byte(data) and copyOf(data): the bytes of data as a non-nil []byte.
BytesValue(data) ==
  Slice(Byte(0), [i \in 1..BLen(data) |-> Byte(Expand(data)[i])])

\* The bytes of a []byte value.
BytesOf(x) == Lit([i \in 1..Len(x.v) |-> x.v[i].v])

\* The zero value of the type of x.
RECURSIVE Zero(_)
Zero(x) ==
  IF x.k = "struct" THEN [x EXCEPT !.v = [i \in 1..Len(x.v) |-> Zero(x.v[i])]]
  ELSE IF x.k \in {"ptr", "slice", "map", "iface"}
    THEN [x EXCEPT !.nil = TRUE, !.v = <<>>]
  ELSE IF x.k = "bool" THEN Bool(FALSE)
  ELSE IF x.k = "byte" THEN Byte(0)
  ELSE IF x.k = "string" THEN String(<<>>)
  ELSE Number(x.k, Zeros(KindWidth(x.k)))

\* reflect.Value.IsZero.
RECURSIVE IsZero(_)
IsZero(x) ==
  IF x.k = "struct" THEN \A i \in 1..Len(x.v) : IsZero(x.v[i])
  ELSE IF x.k \in {"ptr", "slice", "map", "iface"} THEN x.nil
  ELSE IF x.k = "bool" THEN ~x.v
  ELSE IF x.k = "byte" THEN x.v = 0
  ELSE IF x.k = "string" THEN BLen(x.v) = 0
  ELSE \A i \in 1..Len(x.v) : x.v[i] = 0

\* reflect.Append.
AppendElt(s, e) == [s EXCEPT !.nil = FALSE, !.v = Append(s.v, e)]

(***************************************************************************)
(* src/marshal.go: parseTag and checkStructType.                           *)
(***************************************************************************)
\* strings.Split(s, sep) for a separator of one character.
RECURSIVE Split(_, _)
Split(s, sep) ==
  IF \A i \in 1..Len(s) : s[i] # sep THEN <<s>>
  ELSE LET i == CHOOSE j \in 1..Len(s) :
                  s[j] = sep /\ \A h \in 1..(j - 1) : s[h] # sep
       IN  <<SubSeq(s, 1, i - 1)>> \o Split(SubSeq(s, i + 1, Len(s)), sep)

HasPrefix(s, p) == Len(s) >= Len(p) /\ SubSeq(s, 1, Len(p)) = p

DigitValue(c) == CHOOSE d \in 0..9 : <<"0", "1", "2", "3", "4", "5", "6", "7", "8", "9">>[d + 1] = c

RECURSIVE AtoiDigits(_, _)
AtoiDigits(s, acc) ==
  IF Len(s) = 0 THEN acc ELSE AtoiDigits(Tail(s), acc * 10 + DigitValue(s[1]))

\* The digits of strconv.Atoi's argument after the optional sign.
Unsigned(s) == IF Len(s) > 0 /\ s[1] \in {"+", "-"} THEN Tail(s) ELSE s

\* strconv.Atoi: an optional sign and at least one decimal digit.  The
\* texts of the inputs stay within the range of int.
Atoi(s) ==
  IF Len(Unsigned(s)) = 0
     \/ \E i \in 1..Len(Unsigned(s)) :
          Unsigned(s)[i] \notin {"0", "1", "2", "3", "4", "5", "6", "7", "8", "9"}
    THEN [ok |-> FALSE, n |-> 0]
  ELSE IF s[1] = "-" THEN [ok |-> TRUE, n |-> 0 - AtoiDigits(Unsigned(s), 0)]
  ELSE [ok |-> TRUE, n |-> AtoiDigits(Unsigned(s), 0)]

RECURSIVE parseArgs(_, _, _)
\* parseTag after strconv.Atoi returned a for the text of a tag= argument.
parseTagArg(args, i, fi, a) ==
  IF ~a.ok THEN [fi EXCEPT !.ok = FALSE]
  ELSE parseArgs(args, i + 1, [fi EXCEPT !.tag = a.n])

\* The loop of parseTag over the arguments from index i.
parseArgs(args, i, fi) ==
  IF i > Len(args) THEN fi
  ELSE IF args[i] = <<"p", "a", "c", "k">>
    THEN parseArgs(args, i + 1, [fi EXCEPT !.pack = TRUE])
  ELSE IF HasPrefix(args[i], <<"t", "a", "g", "=">>)
    THEN parseTagArg(args, i, fi, Atoi(SubSeq(args[i], 5, Len(args[i]))))
  ELSE parseArgs(args, i + 1, fi)

parseTag(s) == parseArgs(Split(s, ","), 1, [ok |-> TRUE, tag |-> 0, pack |-> FALSE])

\* fieldInfo of field i; the target is field i of the struct value.
fieldInfo(fi, i, field) ==
  [tag |-> fi.tag, slice |-> field.k = "slice", pack |-> fi.pack, idx |-> i]

RECURSIVE checkFields(_, _, _, _)
\* checkStructType's loop body without the skip of zero-valued fields.
checkField_KeepZero(val, withPointer, i, info, fi) ==
  IF ~fi.ok THEN [err |-> "invalid field tag", info |-> <<>>, val |-> val]
  ELSE IF withPointer /\ val.v[i].k = "ptr"
    THEN checkFields([val EXCEPT !.v[i] = PtrTo(val.v[i].t[1], val.v[i].t[1])],
                     withPointer, i + 1, Append(info, fieldInfo(fi, i, val.v[i])))
  ELSE checkFields(val, withPointer, i + 1, Append(info, fieldInfo(fi, i, val.v[i])))

\* The body of checkStructType's loop for field i, parseTag having returned fi.
checkField(val, withPointer, i, info, fi) ==
  IF ~fi.ok THEN [err |-> "invalid field tag", info |-> <<>>, val |-> val]
  ELSE IF withPointer /\ val.v[i].k = "ptr"
    THEN checkFields([val EXCEPT !.v[i] = PtrTo(val.v[i].t[1], val.v[i].t[1])],
                     withPointer, i + 1, Append(info, fieldInfo(fi, i, val.v[i])))
  ELSE IF ~withPointer /\ IsZero(val.v[i])
    THEN checkFields(val, withPointer, i + 1, info)
  ELSE checkFields(val, withPointer, i + 1, Append(info, fieldInfo(fi, i, val.v[i])))

\* The loop of checkStructType over the fields from index i.
checkFields(val, withPointer, i, info) ==
  IF i > Len(val.v) THEN [err |-> "nil", info |-> info, val |-> val]
  ELSE IF ~val.t[i].has THEN checkFields(val, withPointer, i + 1, info)
  ELSE checkField(val, withPointer, i, info, parseTag(val.t[i].ann))

RECURSIVE InsertByTag(_, _)
InsertByTag(sorted, fi) ==
  IF Len(sorted) = 0 THEN <<fi>>
  ELSE IF fi.tag < sorted[1].tag THEN <<fi>> \o sorted
  ELSE <<sorted[1]>> \o InsertByTag(Tail(sorted), fi)

\* checkStructType without the sort: the fields in declaration order.
SortByTag_Declared(info) == info

\* sort.Slice(info, ...) by tag.
RECURSIVE SortByTag(_)
SortByTag(info) ==
  IF Len(info) = 0 THEN <<>>
  ELSE InsertByTag(SortByTag(SubSeq(info, 1, Len(info) - 1)), info[Len(info)])

\* The end of checkStructType: the check for duplicate tags on sorted info.
checkDuplicates(val, info) ==
  IF \E i \in 1..(Len(info) - 1) : info[i].tag = info[i + 1].tag
    THEN [err |-> "duplicate field tag", info |-> <<>>, val |-> val]
  ELSE [err |-> "nil", info |-> info, val |-> val]

\* checkStructType after its loop returned c.
checkSorted(c) ==
  IF c.err # "nil" THEN c ELSE checkDuplicates(c.val, SortByTag(c.info))

\* checkStructType: the field infos in tag order and, with withPointer, the
\* struct with its pointer fields set to fresh pointees.
checkStructType(val, withPointer) == checkSorted(checkFields(val, withPointer, 1, <<>>))

(***************************************************************************)
(* src/marshal.go: Marshal.  The result is [err, buf].                     *)
(***************************************************************************)
RECURSIVE Marshal(_)
RECURSIVE marshalElements(_, _, _)
RECURSIVE marshalEntries(_, _, _)
RECURSIVE marshalFields(_, _, _, _)
RECURSIVE marshalInline(_, _, _, _)

\* marshalSlice and marshalMap after Marshal returned m for an element, a
\* key or a map value: the error, or the buffer with the value written.
written(buf, m) ==
  IF m.err # "nil" THEN [err |-> m.err, buf |-> <<>>]
  ELSE [err |-> "nil", buf |-> writeValue(buf, m.buf).w]

\* The loop of marshalSlice after it handled element i with result r.
marshalElement(elts, i, r) ==
  IF r.err # "nil" THEN r ELSE marshalElements(elts, i + 1, r.buf)

\* The loop of marshalSlice from element i.
marshalElements(elts, i, buf) ==
  IF i > Len(elts) THEN [err |-> "nil", buf |-> buf]
  ELSE marshalElement(elts, i, written(buf, Marshal(elts[i])))

\* marshalSlice without the count.
marshalSlice_NoCount(val) == marshalElements(val.v, 1, <<>>)

marshalSlice(val) == marshalElements(val.v, 1, writeTag(<<>>, Len(val.v)).w)

\* The loop of marshalMap after it wrote the value of entry i with result r.
marshalEntry(entries, i, r) ==
  IF r.err # "nil" THEN r ELSE marshalEntries(entries, i + 1, r.buf)

\* The loop of marshalMap after it wrote the key of entry i with result r.
marshalEntryValue(entries, i, r) ==
  IF r.err # "nil" THEN r
  ELSE marshalEntry(entries, i, written(r.buf, Marshal(entries[i][2])))

\* The loop of marshalMap from entry i of val.MapKeys().
marshalEntries(entries, i, buf) ==
  IF i > Len(entries) THEN [err |-> "nil", buf |-> buf]
  ELSE marshalEntryValue(entries, i, written(buf, Marshal(entries[i][1])))

marshalMap(val) == marshalEntries(val.v, 1, writeTag(<<>>, Len(val.v)).w)

\* The closure put of marshalStruct: the results of both writes are dropped.
put(buf, tag, data) == writeValue(writeTag(buf, tag).w, data).w

\* marshalStruct after Marshal returned m for a field or an inline element.
putField(buf, tag, m) ==
  IF m.err # "nil" THEN [err |-> m.err, buf |-> <<>>]
  ELSE [err |-> "nil", buf |-> put(buf, tag, m.buf)]

\* The inner loop of marshalStruct after inline element j, with result r.
marshalInlineElement(elts, tag, j, r) ==
  IF r.err # "nil" THEN r ELSE marshalInline(elts, tag, j + 1, r.buf)

\* The inner loop of marshalStruct over the elements of an inline slice.
marshalInline(elts, tag, j, buf) ==
  IF j > Len(elts) THEN [err |-> "nil", buf |-> buf]
  ELSE marshalInlineElement(elts, tag, j, putField(buf, tag, Marshal(elts[j])))

\* The loop of marshalStruct after field info i, with result r.
marshalField(val, info, i, r) ==
  IF r.err # "nil" THEN r ELSE marshalFields(val, info, i + 1, r.buf)

\* The loop of marshalStruct from field info i.  The target of a slice
\* field is a []interface{} of its elements, which marshals as a slice.
marshalFields(val, info, i, buf) ==
  IF i > Len(info) THEN [err |-> "nil", buf |-> buf]
  ELSE IF info[i].slice /\ ~info[i].pack
    THEN marshalField(val, info, i,
                      marshalInline(val.v[info[i].idx].v, info[i].tag, 1, buf))
  ELSE IF info[i].slice
    THEN marshalField(val, info, i,
                      putField(buf, info[i].tag, marshalSlice(val.v[info[i].idx])))
  ELSE marshalField(val, info, i,
                    putField(buf, info[i].tag, Marshal(val.v[info[i].idx])))

\* marshalStruct after checkStructType returned c.
marshalInfo(val, c) ==
  IF c.err # "nil" THEN [err |-> c.err, buf |-> <<>>]
  ELSE marshalFields(val, c.info, 1, <<>>)

marshalStruct(val) == marshalInfo(val, checkStructType(val, FALSE))

\* The end of Marshal, on the value deref returned.
marshalKind(val) ==
  IF val.k = "slice" THEN marshalSlice(val)
  ELSE IF val.k = "struct" THEN marshalStruct(val)
  ELSE IF val.k = "map" THEN marshalMap(val)
  ELSE [err |-> "type cannot be marshaled", buf |-> <<>>]

Marshal(v) ==
  IF v.k = "byte" THEN [err |-> "nil", buf |-> Lit(<<v.v>>)]
  ELSE IF IsBytes(v) THEN [err |-> "nil", buf |-> BytesOf(v)]
  ELSE IF v.k = "string" THEN [err |-> "nil", buf |-> v.v]
  ELSE IF v.k = "bool"
    THEN [err |-> "nil", buf |-> IF v.v THEN Lit(<<1>>) ELSE Lit(<<0>>)]
  ELSE IF v.k = "iface" THEN
    IF v.nil THEN [err |-> "nil", buf |-> Lit(<<0>>)] ELSE Marshal(v.v[1])
  ELSE IF v.k \in NumberKinds THEN [err |-> "nil", buf |-> marshalNumber(v).buf]
  ELSE IF v.k = "ptr" THEN
    IF v.nil THEN [err |-> "nil", buf |-> Lit(<<0>>)] ELSE marshalKind(v.v[1])
  ELSE marshalKind(v)

(***************************************************************************)
(* src/unnamed/part_000: Unmarshal.  Unmarshal(data, cur) is the call      *)
(* Unmarshal(data, p) for a pointer p to a variable that holds cur; the    *)
(* result is [err, v] with v the variable's value when the call returns.   *)
(***************************************************************************)
RECURSIVE Unmarshal(_, _)
RECURSIVE sliceLoop(_, _, _)
RECURSIVE mapLoop(_, _, _)
RECURSIVE unmarshalRecords(_, _, _)

\* The pointer p after Unmarshal(data, p.Interface()) returned r.
pointee(p, r) == [err |-> r.err, v |-> [p EXCEPT !.nil = FALSE, !.v = <<r.v>>]]

\* newElement(etype), Unmarshal into the new element, and elt.Elem() when
\* the element type is not a pointer; elem is the zero value of etype.
unmarshalElement(data, elem) ==
  IF elem.k = "ptr" THEN pointee(elem, Unmarshal(data, elem.t[1]))
  ELSE Unmarshal(data, elem)

\* unmarshalSlice after the element for one value was decoded with result e.
sliceAppend(cur, rest, size, e) ==
  IF e.err # "nil" THEN [err |-> e.err, v |-> cur]
  ELSE sliceLoop(AppendElt(cur, e.v), rest, size - 1)

\* unmarshalSlice after readValue returned r.
sliceNext(cur, size, r) ==
  IF r.err = "EOF"
    THEN [err |-> IF size # 0 THEN "invalid packed array" ELSE "nil", v |-> cur]
  ELSE IF r.err # "nil" THEN [err |-> r.err, v |-> cur]
  ELSE sliceAppend(cur, r.rest, size, unmarshalElement(r.value, cur.t[1]))

\* The loop of unmarshalSlice.
sliceLoop(cur, buf, size) == sliceNext(cur, size, readValue(buf))

\* unmarshalSlice after readTag returned t.
sliceSized(cur, t) ==
  IF t.err # "nil" THEN [err |-> "invalid array size", v |-> cur]
  ELSE IF Len(cur.v) = 0 THEN sliceLoop(Slice(cur.t[1], <<>>), t.rest, t.tag)
  ELSE sliceLoop(cur, t.rest, t.tag)

unmarshalSlice(data, cur) == sliceSized(cur, readTag(data))

\* reflect.Value.SetMapIndex.
SetMapIndex(m, key, val) ==
  IF \E i \in 1..Len(m.v) : m.v[i][1] = key
    THEN [m EXCEPT !.v = [i \in 1..Len(m.v) |->
                            IF m.v[i][1] = key THEN <<key, val>> ELSE m.v[i]]]
  ELSE [m EXCEPT !.v = Append(m.v, <<key, val>>)]

\* unmarshalMap after the map value was decoded with result e.
mapSet(cur, rest, size, key, e) ==
  IF e.err # "nil" THEN [err |-> e.err, v |-> cur]
  ELSE mapLoop(SetMapIndex(cur, key, e.v), rest, size - 1)

\* unmarshalMap after the map key was decoded with result e.
mapKey(cur, nval, size, e) ==
  IF e.err # "nil" THEN [err |-> e.err, v |-> cur]
  ELSE mapSet(cur, nval.rest, size, e.v, Unmarshal(nval.value, cur.t[2]))

\* mapValue with a key that has no value taken for the end of the payload.
mapValue_DropKey(cur, nkey, size, nval) ==
  IF nval.err = "EOF"
    THEN [err |-> IF size # 0 THEN "invalid packed map" ELSE "nil", v |-> cur]
  ELSE IF nval.err # "nil" THEN [err |-> nval.err, v |-> cur]
  ELSE mapKey(cur, nval, size, Unmarshal(nkey.value, cur.t[1]))

\* unmarshalMap after the second readValue returned nval.
mapValue(cur, nkey, size, nval) ==
  IF nval.err = "EOF" THEN [err |-> "missing map value", v |-> cur]
  ELSE IF nval.err # "nil" THEN [err |-> nval.err, v |-> cur]
  ELSE mapKey(cur, nval, size, Unmarshal(nkey.value, cur.t[1]))

\* unmarshalMap after the first readValue returned nkey.
mapNext(cur, size, nkey) ==
  IF nkey.err = "EOF"
    THEN [err |-> IF size # 0 THEN "invalid packed map" ELSE "nil", v |-> cur]
  ELSE IF nkey.err # "nil" THEN [err |-> nkey.err, v |-> cur]
  ELSE mapValue(cur, nkey, size, readValue(nkey.rest))

\* The loop of unmarshalMap.
mapLoop(cur, buf, size) == mapNext(cur, size, readValue(buf))

\* unmarshalMap after readTag returned t.
mapSized(cur, t) ==
  IF t.err # "nil" THEN [err |-> "invalid map size", v |-> cur]
  ELSE IF Len(cur.v) = 0 THEN mapLoop(Map(cur.t[1], cur.t[2], <<>>), t.rest, t.tag)
  ELSE mapLoop(cur, t.rest, t.tag)

unmarshalMap(data, cur) == mapSized(cur, readTag(data))

\* find with a record of an unknown tag handed to the first field.
find_First(info, tag) ==
  IF \E j \in 1..Len(info) : info[j].tag = tag
    THEN CHOOSE j \in 1..Len(info) :
           info[j].tag = tag /\ \A h \in 1..(j - 1) : info[h].tag # tag
  ELSE IF Len(info) > 0 THEN 1 ELSE 0

\* find of unmarshalStruct: the index in info of the field with the tag, or 0.
find(info, tag) ==
  IF \E j \in 1..Len(info) : info[j].tag = tag
    THEN CHOOSE j \in 1..Len(info) :
           info[j].tag = tag /\ \A h \in 1..(j - 1) : info[h].tag # tag
  ELSE 0

\* scalarField with the loop over the records ended after the first record
\* of a field.
scalarField_Once(info, val, rest, idx, r) ==
  [err |-> "nil", v |-> [val EXCEPT !.v[idx] = r.v]]

\* unmarshalStruct, non-slice field: Unmarshal returned r for the target; an
\* error ends the call with a nil error.
scalarField(info, val, rest, idx, r) ==
  IF r.err # "nil" THEN [err |-> "nil", v |-> [val EXCEPT !.v[idx] = r.v]]
  ELSE unmarshalRecords(info, [val EXCEPT !.v[idx] = r.v], rest)

\* unmarshalStruct, packed slice field: unmarshalSlice returned r.
packedField(info, val, rest, idx, r) ==
  IF r.err # "nil" THEN [err |-> r.err, v |-> [val EXCEPT !.v[idx] = r.v]]
  ELSE unmarshalRecords(info, [val EXCEPT !.v[idx] = r.v], rest)

\* unmarshalStruct, inline slice field: the element was decoded with result e.
inlineField(info, val, rest, idx, e) ==
  IF e.err # "nil" THEN [err |-> e.err, v |-> val]
  ELSE unmarshalRecords(info, [val EXCEPT !.v[idx] = AppendElt(val.v[idx], e.v)], rest)

\* Unmarshal(data, fi.target): the target of a pointer field is the pointee
\* checkStructType allocated, of any other field its address.
unmarshalTarget(data, field) ==
  IF field.k = "ptr" THEN pointee(field, Unmarshal(data, field.v[1]))
  ELSE Unmarshal(data, field)

\* unmarshalStruct after find returned the field info fi for a record.
unmarshalField(info, val, d, fi) ==
  IF ~fi.slice
    THEN scalarField(info, val, d.rest, fi.idx, unmarshalTarget(d.value, val.v[fi.idx]))
  ELSE IF fi.pack
    THEN packedField(info, val, d.rest, fi.idx, unmarshalSlice(d.value, val.v[fi.idx]))
  ELSE inlineField(info, val, d.rest, fi.idx,
                   unmarshalElement(d.value, val.v[fi.idx].t[1]))

\* unmarshalStruct after d.Decode() returned d.
unmarshalRecord(info, val, d) ==
  IF d.err = "EOF" THEN [err |-> "nil", v |-> val]
  ELSE IF d.err # "nil" THEN [err |-> d.err, v |-> val]
  ELSE IF find(info, d.tag) = 0 THEN unmarshalRecords(info, val, d.rest)
  ELSE unmarshalField(info, val, d, info[find(info, d.tag)])

\* The loop of unmarshalStruct over the records of buf.
unmarshalRecords(info, val, buf) == unmarshalRecord(info, val, DecodeFrom(buf))

\* unmarshalStruct after checkStructType returned c.
unmarshalInfo(data, c) ==
  IF c.err # "nil" THEN [err |-> c.err, v |-> c.val]
  ELSE unmarshalRecords(c.info, c.val, data)

unmarshalStruct(data, cur) == unmarshalInfo(data, checkStructType(cur, TRUE))

\* Unmarshal, the numeric targets: the result of unmarshalNumber.
unmarshalNumeric(r) == [err |-> r.err, v |-> r.v]

Unmarshal(data, cur) ==
  IF cur.k = "byte" THEN
    IF BLen(data) # 1 THEN [err |-> "invalid encoding of byte", v |-> cur]
    ELSE [err |-> "nil", v |-> Byte(data[1].b)]
  ELSE IF IsBytes(cur) THEN [err |-> "nil", v |-> BytesValue(data)]
  ELSE IF cur.k = "iface"
    THEN [err |-> "type cannot be unmarshaled",
          v |-> [cur EXCEPT !.nil = FALSE, !.v = <<BytesValue(data)>>]]
  ELSE IF cur.k = "string" THEN [err |-> "nil", v |-> String(data)]
  ELSE IF cur.k = "bool" THEN
    IF BLen(data) # 1 THEN [err |-> "invalid encoding of bool", v |-> cur]
    ELSE [err |-> "nil", v |-> Bool(data[1].b # 0)]
  ELSE IF cur.k \in NumberKinds THEN unmarshalNumeric(unmarshalNumber(data, cur))
  ELSE IF cur.k = "slice" THEN unmarshalSlice(data, cur)
  ELSE IF cur.k = "struct" THEN unmarshalStruct(data, cur)
  ELSE IF cur.k = "map" THEN unmarshalMap(data, cur)
  ELSE [err |-> "type cannot be unmarshaled", v |-> cur]

(***************************************************************************)
(* The record stream: an Encoder appending to its buffer Data, and a       *)
(* Decoder reading a source.  calls logs every Encode call with the error  *)
(* it returned; marks holds the buffer offsets at which a written record   *)
(* ends; results logs what each Decode call returned.                      *)
(***************************************************************************)
MaxRecs == 2

MaxTruncRecs == 1

MaxCut == 9

\* Tags and values the callers of Encode pass in the stream specification:
\* one tag per encoded size, a tag that is too big and a negative tag; the
\* direct, short, medium and long value forms, a value whose length needs
\* more than 24 bits, and a value that is too big.
StreamTags == {1, 300, 70000, Pow2(30), -1}

StreamValues ==
  {<<>>, Lit(<<5>>), Lit(<<200>>), Lit(<<97, 98>>), Rep(7, 64), Rep(7, 8192),
   Rep(0, Pow2(24)), Rep(0, Pow2(29))}

\* Inputs of the truncation specification: valid records only, covering the
\* 1-, 2- and 4-byte tags and the direct, short, medium and long values.
TruncTags == {1, 300, 70000}

TruncValues ==
  {<<>>, Lit(<<5>>), Lit(<<200>>), Lit(<<97, 98>>), Rep(7, 64), Rep(7, 8192)}

StreamInit ==
  /\ Data = <<>>
  /\ calls = <<>>
  /\ flushed = TRUE
  /\ opened = FALSE
  /\ src = <<>>
  /\ results = <<>>
  /\ cut = 0
  /\ marks = {0}

PureIdle ==
  /\ op = "none"
  /\ arg = <<>>
  /\ res = <<>>

Init == StreamInit /\ PureIdle

\* Encoder.Encode(tag, value) on the encoder's buffer.
Encoded(tag, value, r) ==
  /\ Data' = r.w
  /\ calls' = Append(calls, [tag |-> tag, value |-> value, err |-> r.err])
  /\ marks' = IF r.err = "nil" THEN marks \cup {BLen(r.w)} ELSE marks

EncodeCall(tag, value, max) ==
  /\ ~opened
  /\ Len(calls) < max
  /\ Encoded(tag, value, EncodeTo(Data, tag, value))
  /\ flushed' = FALSE
  /\ UNCHANGED <<opened, src, results, cut, op, arg, res>>

Encode == \E tag \in StreamTags, value \in StreamValues : EncodeCall(tag, value, MaxRecs)

\* Flush: everything encoded so far is in the sink.  The encoder of
\* src/binpack.go writes straight into Data, so Flush moves no bytes.
Flush ==
  /\ ~opened
  /\ ~flushed
  /\ flushed' = TRUE
  /\ UNCHANGED <<Data, calls, opened, src, results, cut, marks, op, arg, res>>

\* NewDecoder over the first k bytes of the (flushed) buffer.
NewDecoderOver(k) ==
  /\ ~opened
  /\ flushed
  /\ opened' = TRUE
  /\ src' = Take(Data, k)
  /\ cut' = k
  /\ UNCHANGED <<Data, calls, flushed, results, marks, op, arg, res>>

NewDecoder == NewDecoderOver(BLen(Data))

\* The error of the latest Decode call ("nil" before the first).
lastErr == IF results = <<>> THEN "nil" ELSE results[Len(results)].err

Decoded(r) ==
  /\ results' = Append(results, [tag |-> r.tag, value |-> r.value, err |-> r.err])
  /\ src' = r.rest

\* Decoder.Decode; the caller stops at the first error or end of stream.
Decode ==
  /\ opened
  /\ Len(results) <= Len(calls)
  /\ lastErr = "nil"
  /\ Decoded(DecodeFrom(src))
  /\ UNCHANGED <<Data, calls, flushed, opened, cut, marks, op, arg, res>>

Next == Encode \/ Flush \/ NewDecoder \/ Decode

Spec == Init /\ [][Next]_vars

(***************************************************************************)
(* The truncation specification: valid records are written, and a Decoder  *)
(* reads a source that ends after any number of their bytes.               *)
(***************************************************************************)
TruncEncode ==
  \E tag \in TruncTags, value \in TruncValues : EncodeCall(tag, value, MaxTruncRecs)

\* The source lengths tried: every length up to MaxCut, and the last bytes.
Cuts == {k \in 0..BLen(Data) : k <= MaxCut \/ k >= BLen(Data) - 1}

TruncNewDecoder == \E k \in Cuts : NewDecoderOver(k)

TruncNext == TruncEncode \/ Flush \/ TruncNewDecoder \/ Decode

SpecTrunc == Init /\ [][TruncNext]_vars

(***************************************************************************)
(* The codec functions on their own: Init draws one input, the actions     *)
(* apply a function to it and then its inverse to the result.              *)
(***************************************************************************)
\* Tags around every power of two up to 2^30, and negative tags.
PureTags ==
  UNION {{Pow2(e) - 1, Pow2(e), Pow2(e) + 1} : e \in 0..30} \cup {-1, -128, -129}

\* Value lengths around the boundaries of the four forms.
PureLengths ==
  {0, 1, 2, 62, 63, 64, 65, 255, 256, 8190, 8191, 8192, 8193, 65535, 65536,
   Pow2(24) - 1, Pow2(24), Pow2(24) + 1, Pow2(29) - 1, Pow2(29), Pow2(29) + 1}

PureValues == {Rep(b, n) : b \in {0, 127, 128, 255}, n \in PureLengths}

\* 64-bit words: every word whose bytes are all 0 or 255, or all 0 or 1, and
\* every 2^e.
BytesWord(f) == [i \in 1..64 |-> BitOf(f[((i - 1) \div 8) + 1], 7 - ((i - 1) % 8))]

PureWords ==
  {BytesWord(f) : f \in [1..8 -> {0, 255}] \cup [1..8 -> {0, 1}]}
  \cup {[i \in 1..64 |-> IF i = 64 - e THEN 1 ELSE 0] : e \in 0..63}

\* Signed integers around the powers of two, as far as 32 bits reach.
SmallInts ==
  UNION {{Pow2(e) - 1, Pow2(e), -Pow2(e), -Pow2(e) - 1} : e \in 0..30}
  \cup {-Pow2(30) - Pow2(30), Pow2(30) + (Pow2(30) - 1)}

FitsSigned(x, w) == IF w >= 32 THEN TRUE ELSE -Pow2(w - 1) <= x /\ x < Pow2(w - 1)

FitsUnsigned(x, w) == x >= 0 /\ (IF w >= 32 THEN TRUE ELSE x < Pow2(w))

\* The widest and narrowest 64-bit integers and their neighbours.
ExtremeWords ==
  {<<1>> \o Zeros(63), <<1>> \o Zeros(62) \o <<1>>, <<0>> \o Ones(63),
   <<0>> \o Ones(62) \o <<0>>, <<0, 1>> \o Zeros(62), <<1, 0>> \o Ones(62)}

SignedSamples(k) == {y \in SmallInts : FitsSigned(y, KindWidth(k))}

UnsignedSamples(k) == {y \in SmallInts : FitsUnsigned(y, KindWidth(k))}

PureNumbers ==
  {Number("int8", Word(x, 8)) : x \in -128..127}
  \cup UNION {{Number(k, Word(x, KindWidth(k))) : x \in SignedSamples(k)} :
               k \in SignedKinds \ {"int8"}}
  \cup UNION {{Number(k, Word(x, KindWidth(k))) : x \in UnsignedSamples(k)} :
               k \in NumberKinds \ SignedKinds}
  \cup {Number(k, Ones(KindWidth(k))) : k \in NumberKinds \ SignedKinds}
  \cup {Number(k, x) : k \in {"int", "int64", "uint64", "float64"}, x \in ExtremeWords}

\* One input of a kind f drawn from the set S.
PureInput(f, S) == \E x \in S : arg = [f |-> f, x |-> x]

PureInit ==
  /\ StreamInit
  /\ op = "input"
  /\ res = <<>>
  /\ \/ PureInput("tag", PureTags)
     \/ PureInput("value", PureValues)
     \/ PureInput("word", PureWords \cup ExtremeWords)
     \/ PureInput("number", PureNumbers)

Apply(f, name, result) ==
  /\ op = "input"
  /\ arg.f = f
  /\ op' = name
  /\ res' = result
  /\ UNCHANGED <<arg, Data, calls, flushed, opened, src, results, cut, marks>>

Invert(from, name, result) ==
  /\ op = from
  /\ op' = name
  /\ res' = result
  /\ UNCHANGED <<arg, Data, calls, flushed, opened, src, results, cut, marks>>

DoWriteTag == Apply("tag", "writeTag", writeTag(<<>>, arg.x))

DoReadTag ==
  /\ op = "writeTag" /\ res.err = "nil"
  /\ Invert("writeTag", "readTag", [w |-> res.w, r |-> readTag(res.w)])

DoWriteValue == Apply("value", "writeValue", writeValue(<<>>, arg.x))

DoReadValue ==
  /\ op = "writeValue" /\ res.err = "nil"
  /\ Invert("writeValue", "readValue",
            [w |-> res.w, h |-> readLength(res.w), r |-> readValue(res.w)])

DoPackUint64 == Apply("word", "PackUint64", PackUint64(arg.x))

DoUnpackUint64 ==
  Invert("PackUint64", "UnpackUint64", [data |-> res, z |-> UnpackUint64(res)])

DoPackInt64 == Apply("word", "PackInt64", PackInt64(arg.x))

DoUnpackInt64 ==
  Invert("PackInt64", "UnpackInt64", [data |-> res, z |-> UnpackInt64(res)])

DoMarshalNumber == Apply("number", "marshalNumber", marshalNumber(arg.x))

DoUnmarshalNumber ==
  Invert("marshalNumber", "unmarshalNumber",
         [buf |-> res.buf,
          r |-> unmarshalNumber(res.buf, Number(arg.x.k, Zeros(KindWidth(arg.x.k))))])

PureNext ==
  \/ DoWriteTag \/ DoReadTag \/ DoWriteValue \/ DoReadValue
  \/ DoPackUint64 \/ DoUnpackUint64 \/ DoPackInt64 \/ DoUnpackInt64
  \/ DoMarshalNumber \/ DoUnmarshalNumber

SpecPure == PureInit /\ [][PureNext]_vars

(***************************************************************************)
(* Marshal and Unmarshal on their own: Init draws one Go value, the        *)
(* actions marshal it and unmarshal the payload into a fresh variable of   *)
(* its type.  The types are those of TestMarshalRoundTrip, and values of   *)
(* every other shape Marshal distinguishes.                                *)
(***************************************************************************)
IntOf(n) == Number("int", Word(n, 64))

Int8Of(n) == Number("int8", Word(n, 8))

\* A string given by the codes of its bytes.
Text(s) == String(Lit(s))

\* The decimal text of n >= 0, and the annotations tag=n and tag=n,pack.
RECURSIVE Decimal(_)
Decimal(n) ==
  IF n < 10 THEN <<<<"0", "1", "2", "3", "4", "5", "6", "7", "8", "9">>[n + 1]>>
  ELSE Decimal(n \div 10) \o Decimal(n % 10)

TagAnn(n) == <<"t", "a", "g", "=">> \o Decimal(n)

PackAnn(n) == TagAnn(n) \o <<",", "p", "a", "c", "k">>

\* type tag struct { Key string; Value int } with tags 1 and 2.
TagOf(key, value) ==
  Struct(<<Field("Key", TRUE, TagAnn(1)), Field("Value", TRUE, TagAnn(2))>>,
         <<Text(key), IntOf(value)>>)

ZeroTag == TagOf(<<>>, 0)

Empty == Struct(<<>>, <<>>)

\* The fields of type thing, in the order of the test's declaration.
thingFields ==
  <<Field("Name", TRUE, TagAnn(10)), Field("Tags", TRUE, TagAnn(30)),
    Field("Slogan", TRUE, TagAnn(20)), Field("Hot", TRUE, TagAnn(70)),
    Field("Counts", TRUE, PackAnn(40)), Field("Set", TRUE, TagAnn(60))>>

\* For each field of thing, its zero value and a value of the test.
thingValues ==
  <<<<Text(<<>>), Text(<<77, 117, 100, 100>>)>>,
    <<NilSlice(NilPtr(ZeroTag)),
      Slice(NilPtr(ZeroTag), <<PtrTo(ZeroTag, TagOf(<<100>>, 101)),
                               PtrTo(ZeroTag, TagOf(<<115>>, 9001))>>)>>,
    <<NilPtr(ZeroTag), PtrTo(ZeroTag, TagOf(<<111, 109>>, -15))>>,
    <<Bool(FALSE), Bool(TRUE)>>,
    <<NilSlice(IntOf(0)), Slice(IntOf(0), <<IntOf(17), IntOf(69), IntOf(1814)>>)>>,
    <<NilMap(Text(<<>>), Empty),
      Map(Text(<<>>), Empty, <<<<Text(<<104>>), Empty>>, <<Text(<<99>>), Empty>>>>)>>>>

\* Orders in which the fields of thing are declared.
ThingOrders ==
  {<<1, 2, 3, 4, 5, 6>>, <<6, 5, 4, 3, 2, 1>>, <<2, 3, 1, 5, 6, 4>>,
   <<4, 1, 6, 3, 5, 2>>}

\* A thing whose fields are declared in the order p, field i holding the
\* value number c[i] of thingValues[i].
ThingOf(p, c) ==
  Struct([i \in 1..6 |-> thingFields[p[i]]],
         [i \in 1..6 |-> thingValues[p[i]][c[p[i]]]])

\* Values of the other shapes.
GoSamples ==
  <<Bool(FALSE), Bool(TRUE), Byte(0), Byte(200),
    Text(<<>>), Text(<<102, 111, 111>>), String(Rep(120, 64)),
    NilSlice(Byte(0)), Slice(Byte(0), <<Byte(1), Byte(200)>>),
    Int8Of(0), Int8Of(1), Int8Of(-1), Int8Of(63), Int8Of(64), Int8Of(-64), Int8Of(-128),
    Number("int16", Word(-300, 16)), Number("int16", Word(16384, 16)),
    Number("int32", Word(70000, 32)), Number("int32", Word(Pow2(30), 32)),
    IntOf(0), IntOf(-15), IntOf(9001), Number("int64", Word(-1, 64)),
    Number("uint16", Word(65535, 16)), Number("uint32", Word(70000, 32)),
    Number("uint64", Ones(64)), Number("float32", Word(Pow2(30), 32)),
    Number("float64", Zeros(64)), Number("float64", <<0>> \o Ones(10) \o Zeros(53)),
    Number("uint", Word(7, 64)),
    NilPtr(ZeroTag), PtrTo(ZeroTag, ZeroTag), PtrTo(ZeroTag, TagOf(<<107>>, 5)),
    PtrTo(IntOf(0), IntOf(5)),
    PtrTo(NilSlice(IntOf(0)), Slice(IntOf(0), <<IntOf(1)>>)),
    NilSlice(IntOf(0)), Slice(IntOf(0), <<>>), Slice(IntOf(0), <<IntOf(17), IntOf(69)>>),
    Slice(Int8Of(0), <<Int8Of(1), Int8Of(64)>>),
    Slice(Text(<<>>), <<Text(<<97>>), Text(<<>>), Text(<<98, 99>>)>>),
    Slice(ZeroTag, <<TagOf(<<97>>, 1), ZeroTag>>),
    Slice(NilPtr(ZeroTag), <<PtrTo(ZeroTag, TagOf(<<97>>, 1))>>),
    Slice(NilPtr(ZeroTag), <<NilPtr(ZeroTag)>>),
    Slice(NilSlice(IntOf(0)), <<Slice(IntOf(0), <<IntOf(1), IntOf(2)>>), NilSlice(IntOf(0))>>),
    Slice(NilInterface, <<NilInterface>>), NilInterface,
    NilMap(Text(<<>>), Bool(FALSE)), Map(Text(<<>>), Bool(FALSE), <<>>),
    Map(Text(<<>>), Bool(FALSE),
        <<<<Text(<<120>>), Bool(TRUE)>>, <<Text(<<121, 122>>), Bool(FALSE)>>>>),
    Map(Text(<<>>), Bool(FALSE),
        <<<<Text(<<121, 122>>), Bool(FALSE)>>, <<Text(<<120>>), Bool(TRUE)>>>>),
    Map(IntOf(0), Text(<<>>), <<<<IntOf(-1), Text(<<97>>)>>, <<IntOf(300), Text(<<>>)>>>>),
    Map(Text(<<>>), NilPtr(ZeroTag), <<<<Text(<<97>>), PtrTo(ZeroTag, ZeroTag)>>>>),
    Map(Text(<<>>), NilSlice(IntOf(0)), <<<<Text(<<97>>), Slice(IntOf(0), <<IntOf(3)>>)>>>>),
    Empty, ZeroTag, TagOf(<<97>>, 0), TagOf(<<>>, -1), TagOf(<<97, 98>>, 300),
    Struct(<<Field("A", TRUE, TagAnn(2)), Field("B", TRUE, TagAnn(1))>>,
           <<Int8Of(64), Int8Of(-3)>>),
    Struct(<<Field("A", TRUE, TagAnn(5)), Field("b", FALSE, <<>>)>>,
           <<IntOf(1), IntOf(2)>>),
    Struct(<<Field("S", TRUE, TagAnn(300)), Field("B", TRUE, TagAnn(3))>>,
           <<TagOf(<<97>>, 7), Slice(Byte(0), <<Byte(1), Byte(2), Byte(200)>>)>>),
    Struct(<<Field("P", TRUE, PackAnn(70000)), Field("Q", TRUE, PackAnn(9))>>,
           <<Slice(Byte(0), <<Byte(1), Byte(2)>>),
             Slice(Text(<<>>), <<Text(<<97>>), Text(<<98>>)>>)>>),
    Struct(<<Field("A", TRUE, TagAnn(1)), Field("B", TRUE, TagAnn(1))>>,
           <<IntOf(1), IntOf(2)>>),
    Struct(<<Field("A", TRUE, TagAnn(1)), Field("B", TRUE, TagAnn(1))>>,
           <<IntOf(1), IntOf(0)>>),
    Struct(<<Field("A", TRUE, <<"t", "a", "g", "=", "x">>)>>, <<IntOf(1)>>),
    Struct(<<Field("A", TRUE, <<"o", "m", "i", "t">>)>>, <<IntOf(1)>>),
    Struct(<<Field("A", TRUE, TagAnn(Pow2(30))), Field("B", TRUE, TagAnn(1))>>,
           <<IntOf(1), IntOf(2)>>),
    Struct(<<Field("A", TRUE, <<"t", "a", "g", "=", "-", "1">>)>>, <<IntOf(1)>>),
    Struct(<<Field("M", TRUE, TagAnn(4)), Field("N", TRUE, TagAnn(2))>>,
           <<Map(Text(<<>>), IntOf(0), <<<<Text(<<97>>), IntOf(1)>>>>),
             NilMap(Text(<<>>), IntOf(0))>>)>>

MarshalInit ==
  /\ StreamInit
  /\ op = "input"
  /\ res = <<>>
  /\ \/ \E i \in 1..Len(GoSamples) : arg = [f |-> "go", x |-> GoSamples[i]]
     \/ \E p \in ThingOrders, c \in [1..6 -> 1..2] :
          arg = [f |-> "go", x |-> ThingOf(p, c)]

\* out := new(T); Unmarshal(bits, out) for the type T of v or, when v is a
\* pointer, of its pointee; the result is [err, v] with v the value of v's
\* type that out stands for.
UnmarshalFresh(data, v) == unmarshalElement(data, Zero(v))

DoMarshal == Apply("go", "Marshal", Marshal(arg.x))

DoUnmarshal ==
  /\ op = "Marshal" /\ res.err = "nil"
  /\ Invert("Marshal", "Unmarshal",
            [buf |-> res.buf, r |-> UnmarshalFresh(res.buf, arg.x)])

MarshalNext == DoMarshal \/ DoUnmarshal

SpecMarshal == MarshalInit /\ [][MarshalNext]_vars

(***************************************************************************)
(* Unmarshal on payloads of its own: Init draws a target and a payload     *)
(* (records for a struct, a count and values for a packed slice or map,    *)
(* bytes for a scalar), the actions unmarshal the payload into the target. *)
(***************************************************************************)
MaxPayloadRecs == 2

MaxCount == 2

MaxScalarLen == 9

\* type rec struct { A int; B bool; P *tag; V []int (packed); W []int;
\* M map[string]bool } with the tags 1, 3, 2, 10, 11 and 20.
recFields ==
  <<Field("A", TRUE, TagAnn(1)), Field("B", TRUE, TagAnn(3)),
    Field("P", TRUE, TagAnn(2)), Field("V", TRUE, PackAnn(10)),
    Field("W", TRUE, TagAnn(11)), Field("M", TRUE, PackAnn(20))>>

\* The struct targets: a zero rec and a rec with every field set.
StructTargets ==
  <<Struct(recFields,
           <<IntOf(0), Bool(FALSE), NilPtr(ZeroTag), NilSlice(IntOf(0)),
             NilSlice(IntOf(0)), NilMap(Text(<<>>), Bool(FALSE))>>),
    Struct(recFields,
           <<IntOf(7), Bool(TRUE), PtrTo(ZeroTag, TagOf(<<111>>, 1)),
             Slice(IntOf(0), <<IntOf(9)>>), Slice(IntOf(0), <<IntOf(8)>>),
             Map(Text(<<>>), Bool(FALSE), <<<<Text(<<107>>), Bool(TRUE)>>>>)>>)>>

\* The records payloads are made of: well-formed and ill-formed values for
\* each field of rec, and records with tags rec does not have.
RecordPool ==
  <<[tag |-> 1, value |-> Lit(<<10>>)],
    [tag |-> 1, value |-> Rep(1, 9)],
    [tag |-> 3, value |-> Lit(<<1>>)],
    [tag |-> 2, value |-> Lit(<<1, 107, 2, 2>>)],
    [tag |-> 2, value |-> Lit(<<255>>)],
    [tag |-> 10, value |-> Lit(<<2, 2, 4>>)],
    [tag |-> 10, value |-> Lit(<<2>>)],
    [tag |-> 11, value |-> Lit(<<6>>)],
    [tag |-> 11, value |-> <<>>],
    [tag |-> 20, value |-> Lit(<<1, 120, 1>>)],
    [tag |-> 20, value |-> Lit(<<1, 121, 0>>)],
    [tag |-> 99, value |-> Lit(<<97, 98>>)],
    [tag |-> 3, value |-> Lit(<<0>>)]>>

\* The payload an Encoder writes for the records recs from index i on.
RECURSIVE PayloadFrom(_, _, _)
PayloadFrom(recs, i, buf) ==
  IF i > Len(recs) THEN buf
  ELSE PayloadFrom(recs, i + 1, EncodeTo(buf, recs[i].tag, recs[i].value).w)

\* The sub-values of packed slice payloads: the int 1 and an empty value.
ElementPool == <<Lit(<<2>>), <<>>>>

\* The keys (odd positions) and values (even positions) of packed map
\* payloads for a map[string]bool.
EntryPool == <<<<Lit(<<120>>), Lit(<<121>>)>>, <<Lit(<<1>>), Lit(<<1>>)>>>>

\* Bytes that follow the last complete sub-value: nothing, the start of a
\* value whose length or body is missing, and a body cut short.
Trailers ==
  <<<<>>, Lit(<<133>>), Lit(<<192>>), Lit(<<192, 5>>), Lit(<<224, 0>>),
    Lit(<<131, 97>>)>>

\* buf followed by the length-prefixed values vals from index i on.
RECURSIVE ValuesFrom(_, _, _)
ValuesFrom(vals, i, buf) ==
  IF i > Len(vals) THEN buf
  ELSE ValuesFrom(vals, i + 1, writeValue(buf, vals[i]).w)

\* A packed container payload: the count, the values, and trailing bytes.
PackedPayload(count, vals, trail) ==
  Cat(ValuesFrom(vals, 1, writeTag(<<>>, count).w), trail)

SliceTargets == <<NilSlice(IntOf(0)), Slice(IntOf(0), <<IntOf(9)>>)>>

MapTargets ==
  <<NilMap(Text(<<>>), Bool(FALSE)),
    Map(Text(<<>>), Bool(FALSE), <<<<Text(<<107>>), Bool(TRUE)>>>>)>>

\* Scalar targets, each holding a value other than zero.
ScalarTargets ==
  <<Bool(TRUE), Byte(7), Int8Of(-3), Number("int16", Word(300, 16)),
    Number("int32", Word(-70000, 32)), IntOf(9001), Number("int64", Word(-1, 64)),
    Number("uint16", Word(65535, 16)), Number("uint32", Word(70000, 32)),
    Number("uint64", Ones(64)), Number("float32", Word(Pow2(30), 32)),
    Number("float64", <<0>> \o Ones(10) \o Zeros(53))>>

StructInput ==
  \E n \in 0..MaxPayloadRecs :
    \E c \in [1..n -> 1..Len(RecordPool)], t \in 1..Len(StructTargets) :
      arg = [f |-> "struct", x |-> StructTargets[t],
             recs |-> [i \in 1..n |-> RecordPool[c[i]]],
             data |-> PayloadFrom([i \in 1..n |-> RecordPool[c[i]]], 1, <<>>)]

SliceInput ==
  \E count \in 0..MaxCount, n \in 0..(MaxCount + 1) :
    \E c \in [1..n -> 1..Len(ElementPool)], t \in 1..Len(SliceTargets),
       r \in 1..Len(Trailers) :
      arg = [f |-> "slice", x |-> SliceTargets[t], count |-> count,
             vals |-> [i \in 1..n |-> ElementPool[c[i]]], trail |-> Trailers[r],
             data |-> PackedPayload(count, [i \in 1..n |-> ElementPool[c[i]]],
                                    Trailers[r])]

MapInput ==
  \E count \in 0..MaxCount, n \in 0..(2 * MaxCount + 1) :
    \E c \in [1..n -> 1..2], t \in 1..Len(MapTargets), r \in 1..3 :
      /\ \A i \in 1..n : i % 2 = 0 => c[i] = 1
      /\ arg = [f |-> "map", x |-> MapTargets[t], count |-> count,
                vals |-> [i \in 1..n |-> EntryPool[2 - (i % 2)][c[i]]],
                trail |-> Trailers[r],
                data |-> PackedPayload(count,
                                       [i \in 1..n |-> EntryPool[2 - (i % 2)][c[i]]],
                                       Trailers[r])]

ScalarInput ==
  \E n \in 0..MaxScalarLen, b \in {0, 1, 255}, t \in 1..Len(ScalarTargets) :
    arg = [f |-> "scalar", x |-> ScalarTargets[t], data |-> Rep(b, n)]

\* A nil interface{} as target and payloads of every length tried.
UntypedInput ==
  \E n \in 0..MaxScalarLen, b \in {0, 1, 255} :
    arg = [f |-> "untyped", x |-> NilInterface, data |-> Rep(b, n)]

UnmarshalInit ==
  /\ StreamInit
  /\ op = "input"
  /\ res = <<>>
  /\ (StructInput \/ SliceInput \/ MapInput \/ ScalarInput \/ UntypedInput)

DoUnmarshalStruct == Apply("struct", "UnmarshalInto", Unmarshal(arg.data, arg.x))

DoUnmarshalSlice == Apply("slice", "UnmarshalInto", Unmarshal(arg.data, arg.x))

DoUnmarshalMap == Apply("map", "UnmarshalInto", Unmarshal(arg.data, arg.x))

DoUnmarshalScalar == Apply("scalar", "UnmarshalInto", Unmarshal(arg.data, arg.x))

DoUnmarshalUntyped == Apply("untyped", "UnmarshalInto", Unmarshal(arg.data, arg.x))

UnmarshalNext ==
  \/ DoUnmarshalStruct
  \/ DoUnmarshalSlice
  \/ DoUnmarshalMap
  \/ DoUnmarshalScalar
  \/ DoUnmarshalUntyped

SpecUnmarshal == UnmarshalInit /\ [][UnmarshalNext]_vars

(***************************************************************************)
(* Properties.                                                             *)
(***************************************************************************)
\* Every Encode call so far returned no error for a tag in 0..2^30-1.
AllEncoded ==
  \A i \in 1..Len(calls) :
    calls[i].err = "nil" /\ 0 <= calls[i].tag /\ calls[i].tag < Pow2(30)

\* C1: after Encode calls that all succeed and Flush, a Decoder over the
\* written bytes returns exactly the encoded records, in order, one per
\* Decode call, and then end-of-stream.
C1_RoundTrip ==
  (opened /\ AllEncoded) =>
    \A i \in 1..Len(results) :
      IF i <= Len(calls)
        THEN /\ results[i].err = "nil"
             /\ results[i].tag = calls[i].tag
             /\ results[i].value = calls[i].value
        ELSE results[i].err = "EOF"

\* C2: a tag (taken as the unsigned number it is, tag >= 0) below 128 is
\* written as one byte with top bit 0; a tag in 128..16383 as two bytes, top
\* bits 10, then 14 bits big-endian; a tag in 16384..2^30-1 as four bytes,
\* top bits 11, then 30 bits big-endian; a tag >= 2^30 writes nothing and
\* fails.
C2_TagEncoding ==
  (op = "writeTag" /\ arg.x >= 0) =>
    LET tag == arg.x
        w == res.w
    IN  IF tag < 128
          THEN res.err = "nil" /\ BLen(w) = 1 /\ At(w, 1) < 128 /\ At(w, 1) = tag
        ELSE IF tag <= 16383
          THEN /\ res.err = "nil" /\ BLen(w) = 2
               /\ At(w, 1) \div 64 = 2
               /\ (At(w, 1) % 64) * 256 + At(w, 2) = tag
        ELSE IF tag <= Pow2(30) - 1
          THEN /\ res.err = "nil" /\ BLen(w) = 4
               /\ At(w, 1) \div 64 = 3
               /\ (At(w, 1) % 64) * Pow2(24) + At(w, 2) * 65536
                    + At(w, 3) * 256 + At(w, 4) = tag
        ELSE res.err = "tag too big" /\ w = <<>>

C2_Witness ==
  op = "writeTag" /\ arg.x = Pow2(30) - 1 /\ res.w = Lit(<<255, 255, 255, 255>>)

\* C3: a one-byte value below 128 is written as that byte alone; any other
\* value of length 0..63 behind the index 10xxxxxx; length 64..8191 behind
\* the two-byte prefix 110xxxxx+1; length 8192..2^29-1 behind the four-byte
\* prefix 111xxxxx+3; a value of 2^29 bytes or more writes nothing and fails.
C3_ValueEncoding ==
  (op = "writeValue") =>
    LET value == arg.x
        n == BLen(value)
        w == res.w
    IN  IF n = 1 /\ At(value, 1) < 128
          THEN res.err = "nil" /\ w = value
        ELSE IF n <= 63
          THEN /\ res.err = "nil"
               /\ At(w, 1) \div 64 = 2
               /\ At(w, 1) % 64 = n
               /\ Drop(w, 1) = value
        ELSE IF n <= 8191
          THEN /\ res.err = "nil"
               /\ At(w, 1) \div 32 = 6
               /\ (At(w, 1) % 32) * 256 + At(w, 2) = n
               /\ Drop(w, 2) = value
        ELSE IF n <= Pow2(29) - 1
          THEN /\ res.err = "nil"
               /\ At(w, 1) \div 32 = 7
               /\ (At(w, 1) % 32) * Pow2(24) + At(w, 2) * 65536
                    + At(w, 3) * 256 + At(w, 4) = n
               /\ Drop(w, 4) = value
        ELSE res.err = "value too big" /\ w = <<>>

C3_Witness ==
  /\ op = "writeValue"
  /\ arg.x = Rep(255, 8192)
  /\ Take(res.w, 4) = Lit(<<224, 0, 32, 0>>)

\* C4: the length read back from the prefix writeValue emits for a value of
\* n bytes, 8192 <= n < 2^29, is n: the low 5 bits of the index byte
\* followed by the next three bytes.
C4_LongLength ==
  (op = "readValue" /\ 8192 <= BLen(arg.x) /\ BLen(arg.x) < Pow2(29)) =>
    /\ res.h.err = "nil"
    /\ res.h.n = BLen(arg.x)
    /\ res.h.n = (At(res.w, 1) % 32) * Pow2(24) + At(res.w, 2) * 65536
                   + At(res.w, 3) * 256 + At(res.w, 4)

\* C5: over a source that is the first cut bytes of a stream of valid
\* records, Decode reports end-of-stream only when cut is a record boundary,
\* and a Truncated error (not end-of-stream) when the source ends inside a
\* record.
C5_Truncated ==
  \A i \in 1..Len(results) :
    results[i].err # "nil" =>
      results[i].err = (IF cut \in marks THEN "EOF" ELSE "ErrUnexpectedEOF")

\* The field tags of a struct follow the grammar tag=N or tag=N,pack with N
\* in 0..2^30-1.
TagsInRange(s) ==
  \A i \in 1..Len(s.v) :
    s.t[i].has =>
      /\ parseTag(s.t[i].ann).ok
      /\ parseTag(s.t[i].ann).tag \in 0..(Pow2(30) - 1)
      /\ s.t[i].ann \in {TagAnn(parseTag(s.t[i].ann).tag),
                         PackAnn(parseTag(s.t[i].ann).tag)}

\* The value shapes the specification lists as supported: bool, byte, text,
\* byte sequence, the numeric widths, pointers, sequences, maps, and structs
\* whose fields all carry distinct tags of the annotation grammar.
RECURSIVE Supported(_)
Supported(x) ==
  IF x.k \in {"bool", "byte", "string"} \cup NumberKinds THEN TRUE
  ELSE IF x.k = "ptr" THEN Supported(x.t[1]) /\ (x.nil \/ Supported(x.v[1]))
  ELSE IF x.k = "slice"
    THEN Supported(x.t[1]) /\ \A i \in 1..Len(x.v) : Supported(x.v[i])
  ELSE IF x.k = "map"
    THEN /\ Supported(x.t[1]) /\ Supported(x.t[2])
         /\ \A i \in 1..Len(x.v) : Supported(x.v[i][1]) /\ Supported(x.v[i][2])
  ELSE IF x.k = "struct"
    THEN /\ \A i \in 1..Len(x.v) : x.t[i].has /\ Supported(x.v[i])
         /\ TagsInRange(x)
         /\ \A i, j \in 1..Len(x.v) :
              i # j => parseTag(x.t[i].ann).tag # parseTag(x.t[j].ann).tag
  ELSE FALSE

\* Equality of two Go values of one type: nil and empty slices and maps are
\* taken as equal, and maps are compared as sets of entries.
RECURSIVE Same(_, _)
Same(a, b) ==
  /\ a.k = b.k
  /\ IF a.k = "ptr" THEN a.nil = b.nil /\ (a.nil \/ Same(a.v[1], b.v[1]))
     ELSE IF a.k = "slice"
       THEN Len(a.v) = Len(b.v) /\ \A i \in 1..Len(a.v) : Same(a.v[i], b.v[i])
     ELSE IF a.k = "map"
       THEN /\ Len(a.v) = Len(b.v)
            /\ \A i \in 1..Len(a.v) : \E j \in 1..Len(b.v) :
                 Same(a.v[i][1], b.v[j][1]) /\ Same(a.v[i][2], b.v[j][2])
     ELSE IF a.k = "struct"
       THEN \A i \in 1..Len(a.v) : Same(a.v[i], b.v[i])
     ELSE IF a.k = "string" THEN Expand(a.v) = Expand(b.v)
     ELSE a.v = b.v

\* C6: for every value v of a supported shape, Marshal(v) succeeds, and
\* Unmarshal of the payload into a fresh target of v's type succeeds and
\* yields a value equal to v, up to the order of map entries.
C6_MarshalRoundTrip ==
  (arg.f = "go" /\ Supported(arg.x)) =>
    /\ op = "Marshal" => res.err = "nil"
    /\ op = "Unmarshal" => res.r.err = "nil" /\ Same(res.r.v, arg.x)

\* C7: a signed integer marshaled at its width and unmarshaled into a
\* target of the same width comes back unchanged.
C7_SignedRoundTrip ==
  (op = "unmarshalNumber" /\ arg.x.k \in SignedKinds) =>
    res.r.err = "nil" /\ res.r.v.v = arg.x.v

\* The integer a word of at most 16 bits stands for, read as signed.
SignedValue(x) == WordNat(x) - (IF x[1] = 1 THEN Pow2(Len(x)) ELSE 0)

\* The shortest big-endian bytes of a natural number.
RECURSIVE NatBytes(_)
NatBytes(n) == IF n < 256 THEN <<n>> ELSE Append(NatBytes(n \div 256), n % 256)

\* C8: the magnitude packed for a signed v of width w is 2v for v >= 0 and
\* -2v-1 for v < 0, so the packed form is never longer than w/8 bytes.
C8_ZigZag ==
  (op = "marshalNumber" /\ arg.x.k \in SignedKinds) =>
    /\ BLen(res.buf) <= KindWidth(arg.x.k) \div 8
    /\ KindWidth(arg.x.k) <= 16 =>
         LET v == SignedValue(arg.x.v) IN
         Expand(res.buf) = NatBytes(IF v >= 0 THEN 2 * v ELSE -2 * v - 1)

\* C9: PackUint64(z) is the big-endian bytes of z without its leading zero
\* bytes: 1 to 8 bytes, the first non-zero unless z = 0, exactly one zero
\* byte for z = 0; UnpackUint64 of it is z.
C9_PackUint64 ==
  /\ (op = "PackUint64") =>
       /\ 1 <= BLen(res) /\ BLen(res) <= 8
       /\ (arg.x # Zeros(64)) => At(res, 1) # 0
       /\ (arg.x = Zeros(64)) => res = Lit(<<0>>)
       /\ BytesWord(Zeros(8 - BLen(res)) \o Expand(res)) = arg.x
  /\ (op = "UnpackUint64") => res.z = arg.x

C9_Witness ==
  /\ op = "UnpackUint64"
  /\ arg.x = BytesWord(<<0, 0, 0, 0, 0, 0, 1, 0>>)
  /\ res.data = Lit(<<1, 0>>)
  /\ res.z = arg.x

\* The records of a payload, as a Decoder reads them up to its first error.
RECURSIVE Records(_)
Records(buf) ==
  IF DecodeFrom(buf).err # "nil" THEN <<>>
  ELSE <<[tag |-> DecodeFrom(buf).tag, value |-> DecodeFrom(buf).value]>>
       \o Records(DecodeFrom(buf).rest)

\* Field f of the struct s is an inline sequence field.
InlineField(s, f) ==
  s.t[f].has /\ s.v[f].k = "slice" /\ ~parseTag(s.t[f].ann).pack

\* The positions of the records that carry the tag of field f of s.
RecordsOf(recs, s, f) ==
  {i \in 1..Len(recs) : recs[i].tag = parseTag(s.t[f].ann).tag}

\* C10: the tags of the records Marshal emits for a struct are in
\* non-decreasing order whatever the order of the field declarations, and
\* the records of an inline sequence field, one per element and all with the
\* field's tag, are contiguous and in element order.
C10_FieldOrder ==
  (arg.f = "go" /\ op = "Marshal" /\ res.err = "nil"
   /\ arg.x.k = "struct" /\ TagsInRange(arg.x)) =>
    /\ \A i \in 1..(Len(Records(res.buf)) - 1) :
         Records(res.buf)[i].tag <= Records(res.buf)[i + 1].tag
    /\ \A f \in 1..Len(arg.x.v) :
         InlineField(arg.x, f) =>
           /\ Cardinality(RecordsOf(Records(res.buf), arg.x, f)) = Len(arg.x.v[f].v)
           /\ \A i, j \in RecordsOf(Records(res.buf), arg.x, f) :
                \A h \in i..j : h \in RecordsOf(Records(res.buf), arg.x, f)
           /\ \A i \in RecordsOf(Records(res.buf), arg.x, f) :
                Records(res.buf)[i].value =
                  Marshal(arg.x.v[f].v[
                    Cardinality({j \in RecordsOf(Records(res.buf), arg.x, f) : j <= i})]).buf

\* A struct whose fields are declared out of tag order, with an inline
\* sequence of two or more elements, has been marshaled to four or more
\* records.
C10_Witness ==
  /\ arg.f = "go" /\ op = "Marshal" /\ res.err = "nil"
  /\ arg.x.k = "struct" /\ TagsInRange(arg.x)
  /\ \E i, j \in 1..Len(arg.x.v) :
       /\ i < j /\ ~IsZero(arg.x.v[i]) /\ ~IsZero(arg.x.v[j])
       /\ parseTag(arg.x.t[i].ann).tag > parseTag(arg.x.t[j].ann).tag
  /\ \E f \in 1..Len(arg.x.v) : InlineField(arg.x, f) /\ Len(arg.x.v[f].v) >= 2
  /\ Len(Records(res.buf)) >= 4

\* The tags of the fields of the struct s are pairwise different.
DistinctTags(s) ==
  \A i, j \in 1..Len(s.v) :
    (i # j /\ s.t[i].has /\ s.t[j].has) =>
      parseTag(s.t[i].ann).tag # parseTag(s.t[j].ann).tag

C12_AbsentFields ==
  (arg.f = "go" /\ op = "Unmarshal" /\ arg.x.k = "struct"
   /\ TagsInRange(arg.x) /\ DistinctTags(arg.x)) =>
    \A f \in 1..Len(arg.x.v) :
      (arg.x.t[f].has /\ RecordsOf(Records(res.buf), arg.x, f) = {}) =>
        res.r.v.v[f] = Zero(arg.x.v[f])

\* C14: Marshal and Unmarshal of a struct whose type has two annotated
\* fields with the same tag fail with the duplicate-tag error, whatever the
\* values of the fields are.
C14_DuplicateFieldTag ==
  (arg.f = "go" /\ arg.x.k = "struct"
   /\ (\A f \in 1..Len(arg.x.v) : arg.x.t[f].has => parseTag(arg.x.t[f].ann).ok)
   /\ ~DistinctTags(arg.x)) =>
    /\ op = "Marshal" => res.err = "duplicate field tag"
    /\ op = "Unmarshal" => res.r.err = "duplicate field tag"

\* Whether the struct s has a tagged field with this tag.
KnownTag(s, tag) ==
  \E f \in 1..Len(s.v) : s.t[f].has /\ parseTag(s.t[f].ann).tag = tag

\* The records of recs whose tag belongs to a field of s.
KnownRecords(s, recs) == SelectSeq(recs, LAMBDA rec : KnownTag(s, rec.tag))

\* C13: a struct payload that holds records with tags of no field is
\* unmarshaled as the payload without those records is, wherever they are
\* placed: the same error and the same field values; when it holds no other
\* records, Unmarshal succeeds.
C13_UnknownTags ==
  (arg.f = "struct" /\ op = "UnmarshalInto"
   /\ \E i \in 1..Len(arg.recs) : ~KnownTag(arg.x, arg.recs[i].tag)) =>
    /\ res = Unmarshal(PayloadFrom(KnownRecords(arg.x, arg.recs), 1, <<>>), arg.x)
    /\ KnownRecords(arg.x, arg.recs) = <<>> => res.err = "nil"

\* An unknown record before a record of the field A, which was set from it.
C13_Witness ==
  /\ arg.f = "struct" /\ op = "UnmarshalInto"
  /\ Len(arg.recs) = 2
  /\ arg.recs[1].tag = 99 /\ arg.recs[2] = [tag |-> 1, value |-> Lit(<<10>>)]
  /\ arg.x.v[1] = IntOf(7)
  /\ res.err = "nil" /\ res.v.v[1] = IntOf(5)

\* Whether every sub-value of the packed slice payload decodes as an int.
ValidElements == \A i \in 1..Len(arg.vals) : arg.vals[i] # <<>>

\* C15: Unmarshal of a packed slice payload succeeds only when the number
\* of sub-values equals the declared count and no bytes follow them; with
\* well-formed sub-values and nothing after them, it succeeds when their
\* number is the count and fails with "invalid packed array" otherwise.
C15_PackedCount ==
  (arg.f = "slice" /\ op = "UnmarshalInto") =>
    /\ res.err = "nil" => (Len(arg.vals) = arg.count /\ arg.trail = <<>>)
    /\ (ValidElements /\ arg.trail = <<>>) =>
         res.err = (IF Len(arg.vals) = arg.count THEN "nil" ELSE "invalid packed array")

RECURSIVE SubValues(_)
SubValuesAfter(r) ==
  IF r.err # "nil" THEN [ok |-> FALSE, vals |-> <<>>]
  ELSE LET more == SubValues(r.rest)
       IN  [ok |-> more.ok, vals |-> <<r.value>> \o more.vals]

SubValues(buf) ==
  IF buf = <<>> THEN [ok |-> TRUE, vals |-> <<>>] ELSE SubValuesAfter(readValue(buf))

\* The values a bare slice or map is made of, in order: the elements of a
\* slice, the key and then the value of each entry of a map.
Components(x) ==
  IF x.k = "slice" THEN x.v
  ELSE [i \in 1..(2 * Len(x.v)) |-> x.v[(i + 1) \div 2][2 - (i % 2)]]

\* C17: Marshal of a slice other than []byte, or of a map, whose components
\* can be marshaled gives the count followed by the length-prefixed encoding
\* of each element in index order, or of each entry's key and value in
\* turn, and nothing else.
C17_PackedEncoding ==
  (arg.f = "go" /\ op = "Marshal" /\ arg.x.k \in {"slice", "map"} /\ ~IsBytes(arg.x)) =>
    IF \A i \in 1..Len(Components(arg.x)) : Marshal(Components(arg.x)[i]).err = "nil"
      THEN /\ res.err = "nil"
           /\ readTag(res.buf).err = "nil"
           /\ readTag(res.buf).tag = Len(arg.x.v)
           /\ SubValues(readTag(res.buf).rest) =
                [ok |-> TRUE,
                 vals |-> [i \in 1..Len(Components(arg.x)) |->
                             Marshal(Components(arg.x)[i]).buf]]
      ELSE res.err # "nil"

\* The slice []int{17, 69} was marshaled to 02 22 81 8A.
C17_Witness ==
  /\ arg.f = "go" /\ op = "Marshal"
  /\ arg.x = Slice(IntOf(0), <<IntOf(17), IntOf(69)>>)
  /\ res = [err |-> "nil", buf |-> Lit(<<2, 34, 129, 138>>)]

\* The ints the records of recs with the tag 10 or 11 carry for the slice
\* field with that tag, in stream order: a record of one value of at most
\* one byte carries one int, a record of a count and sub-values carries
\* the sub-values.
RECURSIVE IntsOf(_, _)
IntsOf(recs, tag) ==
  IF recs = <<>> THEN <<>>
  ELSE IF recs[1].tag # tag THEN IntsOf(Tail(recs), tag)
  ELSE IF recs[1].value = Lit(<<2, 2, 4>>)
    THEN <<IntOf(1), IntOf(2)>> \o IntsOf(Tail(recs), tag)
  ELSE <<UnmarshalFresh(recs[1].value, IntOf(0)).v>> \o IntsOf(Tail(recs), tag)

\* Whether every record of recs is a well-formed record of a field.
WellFormed(recs) ==
  \A i \in 1..Len(recs) :
    recs[i] \in {RecordPool[1], RecordPool[3], RecordPool[4], RecordPool[6],
                 RecordPool[7], RecordPool[8], RecordPool[10], RecordPool[11]}

\* C18: records with the tag of a slice field, one value per record or a
\* packed container per record, are appended to the field in stream order
\* whichever form each has; the entries of several records of a map field
\* are all in the map.
C18_Accumulate ==
  (arg.f = "struct" /\ op = "UnmarshalInto" /\ WellFormed(arg.recs)) =>
    /\ res.err = "nil"
    /\ res.v.v[4].v = arg.x.v[4].v \o IntsOf(arg.recs, 10)
    /\ res.v.v[5].v = arg.x.v[5].v \o IntsOf(arg.recs, 11)
    /\ \A i \in 1..Len(arg.recs) :
         arg.recs[i].tag = 20 =>
           \E e \in 1..Len(res.v.v[6].v) :
             res.v.v[6].v[e][1] = String(Take(Drop(arg.recs[i].value, 1), 1))

\* Whether the record rec, met by a struct Unmarshal whose fields hold the
\* values v, belongs to a field and fails to decode into it.
FailsToDecode(v, rec) ==
  \/ rec.tag = 1 /\ Unmarshal(rec.value, v[1]).err # "nil"
  \/ rec.tag = 3 /\ Unmarshal(rec.value, v[2]).err # "nil"
  \/ rec.tag = 2 /\ Unmarshal(rec.value, ZeroTag).err # "nil"
  \/ rec.tag = 10 /\ Unmarshal(rec.value, v[4]).err # "nil"
  \/ rec.tag = 11 /\ Unmarshal(rec.value, IntOf(0)).err # "nil"
  \/ rec.tag = 20 /\ Unmarshal(rec.value, v[6]).err # "nil"

\* C19: when the first record of a struct payload belongs to a field and
\* fails to decode into it, Unmarshal of the struct returns that error.
C19_FieldError ==
  (arg.f = "struct" /\ op = "UnmarshalInto" /\ Len(arg.recs) > 0
   /\ FailsToDecode(arg.x.v, arg.recs[1])) =>
    res.err # "nil"

\* C20: Unmarshal into a bool or a byte succeeds for a payload of exactly
\* one byte, into a number for a payload of one to eight bytes, and fails
\* with the target's invalid-encoding error for every other length, the
\* empty payload included.
C20_ScalarLength ==
  (arg.f = "scalar" /\ op = "UnmarshalInto") =>
    res.err =
      (IF arg.x.k \in {"bool", "byte"}
         THEN IF BLen(arg.data) = 1 THEN "nil"
              ELSE IF arg.x.k = "bool" THEN "invalid encoding of bool"
              ELSE "invalid encoding of byte"
       ELSE IF BLen(arg.data) \in 1..8 THEN "nil" ELSE "invalid number encoding")

\* An int target and a payload of nine bytes.
C20_Witness ==
  /\ arg.f = "scalar" /\ op = "UnmarshalInto"
  /\ arg.x.k = "int" /\ BLen(arg.data) = 9
  /\ res.err = "invalid number encoding"

\* C21: Unmarshal into a pointer to an empty interface returns no error
\* and leaves the bytes of the payload, unchanged, in the interface.
C21_Untyped ==
  (arg.f = "untyped" /\ op = "UnmarshalInto") =>
    /\ res.err = "nil"
    /\ res.v.k = "iface" /\ ~res.v.nil
    /\ res.v.v = <<BytesValue(arg.data)>>

\* The index of the last record of recs with this tag, or 0.
LastWith(recs, tag) ==
  IF \E i \in 1..Len(recs) : recs[i].tag = tag
    THEN CHOOSE i \in 1..Len(recs) :
           recs[i].tag = tag /\ \A j \in (i + 1)..Len(recs) : recs[j].tag # tag
  ELSE 0

IsTagAttribute(a) ==
  /\ HasPrefix(a, <<"t", "a", "g", "=">>)
  /\ Len(a) > 4
  /\ \A i \in 5..Len(a) : a[i] \in {"0", "1", "2", "3", "4", "5", "6", "7", "8", "9"}

\* Whether the annotation ann is made of tag=<unsigned-int> and pack
\* attributes only, a tag among them.
Grammatical(ann) ==
  /\ \A i \in 1..Len(Split(ann, ",")) :
       IsTagAttribute(Split(ann, ",")[i]) \/ Split(ann, ",")[i] = <<"p", "a", "c", "k">>
  /\ \E i \in 1..Len(Split(ann, ",")) : IsTagAttribute(Split(ann, ",")[i])

\* C22: Marshal of a struct with an annotated field whose annotation is not
\* of the form tag=<unsigned-int>[,pack] returns an error, and so does
\* Unmarshal into that struct.
C22_AnnotationGrammar ==
  (arg.f = "go" /\ arg.x.k = "struct"
   /\ \E f \in 1..Len(arg.x.v) : arg.x.t[f].has /\ ~Grammatical(arg.x.t[f].ann)) =>
    /\ op = "Marshal" => res.err # "nil"
    /\ op = "Unmarshal" => res.r.err # "nil"

\* C23: Marshal of a struct with a field that is not zero and whose
\* annotation is a well-formed tag of 2^30 or more returns an error.
C23_TagTooBig ==
  (arg.f = "go" /\ op = "Marshal" /\ arg.x.k = "struct"
   /\ \E f \in 1..Len(arg.x.v) :
        /\ arg.x.t[f].has /\ Grammatical(arg.x.t[f].ann)
        /\ parseTag(arg.x.t[f].ann).tag >= Pow2(30)
        /\ ~IsZero(arg.x.v[f])) =>
    res.err # "nil"

\* C24: when a packed slice or map payload ends with a sub-value whose
\* length bytes or body are cut short, Unmarshal returns an error.
C24_TruncatedSubValue ==
  (arg.f \in {"slice", "map"} /\ op = "UnmarshalInto" /\ arg.trail # <<>>) =>
    res.err # "nil"

\* C25: an Encode call that returns an error leaves the encoder's buffer
\* as it was before the call.
C25_FailedEncode ==
  [][(Len(calls') = Len(calls) + 1 /\ calls'[Len(calls')].err # "nil")
       => Data' = Data]_vars

\* C26: every Encode call that returned no error had a tag in 0..2^30-1,
\* and the bytes written for its tag read back as that tag.
C26_TagRange ==
  \A i \in 1..Len(calls) :
    calls[i].err = "nil" =>
      /\ calls[i].tag >= 0 /\ calls[i].tag < Pow2(30)
      /\ readTag(writeTag(<<>>, calls[i].tag).w).tag = calls[i].tag

\* C28: when Unmarshal into a bool, a byte or a number returns an invalid
\* encoding error, the target holds the value it held before the call.
C28_TargetKept ==
  (arg.f = "scalar" /\ op = "UnmarshalInto" /\ res.err # "nil") => res.v = arg.x

====
